---- MODULE Spec2Model ----
(***************************************************************************)
(* hashpy.io.obspy: the adapter between an ObsPy Event and the HASH        *)
(* holder (HashPype).  input_event loads an event into the holder's        *)
(* arrays, output_event builds or updates an event from the holder.        *)
(*                                                                         *)
(* Numbers: floating point values are modelled by exact integers.  Depths  *)
(* and location errors are metres on the event side and kilometres on the  *)
(* holder side; the model's inputs are whole kilometres so that / 1000. is *)
(* exact.  Epicentral distance is whole degrees on the event side and      *)
(* tenths of a kilometre on the holder side (distance * 111.2).            *)
(*                                                                         *)
(* Python's None: <<>> for a number or an object that may be missing (a    *)
(* present value v is <<v>>), the string NoneStr for a string attribute.   *)
(***************************************************************************)
EXTENDS Integers, Sequences, FiniteSets, TLC

VARIABLES hp, event, result, hp2, err, stage, nexports, pre, mode

vars == <<hp, event, result, hp2, err, stage, nexports, pre, mode>>

(* ------------------------------ bounds -------------------------------- *)
MaxArr == 2
MaxMult == 2
MaxExports == 2

(* ------------------------------ Python -------------------------------- *)
None == <<>>
Some(v) == <<v>>
Val(x) == x[1]
NoneStr == "<None>"
\* truth value of an optional number: None and 0 are false
Truthy(x) == x # None /\ Val(x) # 0

PREFIX == "smi:local.hashserver"
DEFAULT_UNCERT == 1000
NoPrefix == "<no prefix>"

\* a local identifier "Kind/n", "Kind/n-m" or "Kind/n-m#frag"
Local(kind, n, m, frag) == [kind |-> kind, n |-> n, m |-> m, frag |-> frag]

rid(resource_id, prefix) ==
    IF prefix # NoPrefix
    THEN [prefix |-> IF prefix = "" THEN PREFIX ELSE prefix, local |-> resource_id]
    ELSE [prefix |-> "", local |-> resource_id]

NoId == [prefix |-> "", local |-> Local("", 0, 0, "")]

\* the place of a pick that is None in a list of picks
NonePick == [resource_id |-> NoId, referred |-> FALSE, station_code |-> NoneStr,
             network_code |-> NoneStr, channel_code |-> NoneStr, version |-> 0,
             polarity |-> NoneStr, onset |-> NoneStr]

Last(S) == CHOOSE n \in S : \A m \in S : m <= n
First(S) == CHOOSE n \in S : \A m \in S : n <= m

\* ResourceIdentifier.getReferredObject: the object the identifier is bound
\* to (the latest binding wins), None when it is bound to nothing
getReferredObject(pid, picks) ==
    LET S == {n \in 1..Len(picks) : picks[n].resource_id = pid /\ picks[n].referred}
    IN IF S = {} THEN NonePick ELSE picks[Last(S)]

get_pick(arrival, picks, pick_ids) ==
    LET pid == arrival.pick_id
        pick == getReferredObject(pid, picks)
        S == {n \in 1..Len(pick_ids) : pick_ids[n] = pid}
    IN IF pick = NonePick
       THEN IF S = {} THEN pick ELSE picks[First(S)]
       ELSE pick

(* ------------------------------ holder -------------------------------- *)
Slots == 0..(MaxArr - 1)

\* a HashPype holder before any event is loaded; delmax is 120 km
FreshHp ==
    [tstamp |-> 0, qlat |-> 0, qlon |-> 0, qdep |-> 0, icusp |-> 0,
     seh |-> 0, sez |-> 0, qmag |-> None, delmax |-> 1200,
     p_index |-> <<>>, npol |-> 0,
     sname |-> [k \in Slots |-> ""], snet |-> [k \in Slots |-> ""],
     scomp |-> [k \in Slots |-> ""], arid |-> [k \in Slots |-> 0],
     qazi |-> [k \in Slots |-> 0], dist |-> [k \in Slots |-> 0],
     p_pol |-> [k \in Slots |-> 0], p_qual |-> [k \in Slots |-> 0],
     nmult |-> 0, best |-> 0,
     p_azi_mc |-> [k \in Slots |-> 0], p_the_mc |-> [k \in Slots |-> 0]]

(* --------------------------- input_event ------------------------------ *)
DivKm(x) == x \div 1000

\* lines 71-76, before the division by 1000
HorizontalError(uncert) ==
    IF Truthy(uncert.horizontal_uncertainty)
    THEN Val(uncert.horizontal_uncertainty)
    ELSE IF uncert.confidence_ellipsoid # None
            /\ Truthy(Val(uncert.confidence_ellipsoid).semi_major_axis_length)
         THEN Val(Val(uncert.confidence_ellipsoid).semi_major_axis_length)
         ELSE DEFAULT_UNCERT

\* lines 59-82: the scalar fields; an origin without an origin_uncertainty
\* raises at line 71, after lines 64-68 have run
InputScalars(h, ev) ==
    LET o == ev.origin
        h1 == [h EXCEPT !.tstamp = o.time, !.qlat = o.latitude,
                        !.qlon = o.longitude, !.qdep = DivKm(o.depth),
                        !.icusp = o.version]
    IN IF o.origin_uncertainty = None
       THEN [hp |-> h1, k |-> 0, err |-> "AttributeError"]
       ELSE [hp |-> [h1 EXCEPT
                     !.seh = DivKm(HorizontalError(Val(o.origin_uncertainty))),
                     !.sez = DivKm(IF o.depth_errors = None THEN DEFAULT_UNCERT
                                   ELSE Val(o.depth_errors)),
                     !.qmag = IF ev.magnitude # None THEN ev.magnitude ELSE @,
                     !.p_index = <<>>],
             k |-> 0, err |-> ""]

\* variant: the azimuth kept as read
NormalizeAzimuthNone(az) == az

\* lines 105-106
NormalizeAzimuth(az) == IF az < 0 THEN az + 360 ELSE az

\* line 103, in tenths of a kilometre
DistKm(distance) == distance * 1112

\* line 112: arrv.phase in 'Pp' is Python's substring test; a phase that is
\* None raises TypeError (ArrivalStep)
InPp(phase) == phase \in {"", "P", "p", "Pp"}

PolaritySign(polarity) ==
    IF polarity = "positive" THEN 1 ELSE IF polarity = "negative" THEN -1 ELSE 0

\* lines 124-131
OnsetQuality(onset) ==
    IF onset = "impulsive" THEN 0
    ELSE IF onset = "emergent" THEN 1
    ELSE IF onset = "questionable" THEN 1
    ELSE 0

\* variant: the arrival's position used as the slot index
SlotIndexPosition(k, i) == i

\* lines 97-131 write at the slot counter k, not at the arrival's position i
SlotIndex(k, i) == k

\* lines 92-136: one pass of the loop body for the arrival at position i
\* (0-based), st = [hp, k, err]
ArrivalStep(st, ev, i) ==
    LET arrv == ev.origin.arrivals[i + 1]
        pick == get_pick(arrv, ev.picks, [n \in 1..Len(ev.picks) |-> ev.picks[n].resource_id])
        k == SlotIndex(st.k, i)
        h1 == [st.hp EXCEPT !.sname[k] = pick.station_code,
                            !.snet[k] = pick.network_code,
                            !.scomp[k] = pick.channel_code,
                            !.arid[k] = pick.version,
                            !.qazi[k] = Val(arrv.azimuth)]
        h2 == [h1 EXCEPT !.dist[k] = DistKm(Val(arrv.distance)),
                         !.qazi[k] = NormalizeAzimuth(@)]
        h3 == [h2 EXCEPT !.p_pol[k] = PolaritySign(pick.polarity)]
        h4 == [h3 EXCEPT !.p_qual[k] = OnsetQuality(pick.onset),
                         !.p_index = Append(@, i)]
    IN IF pick = NonePick THEN st
       ELSE IF arrv.distance = None THEN [hp |-> h1, k |-> st.k, err |-> "TypeError"]
       ELSE IF h2.dist[k] > h2.delmax THEN [st EXCEPT !.hp = h2]
       ELSE IF arrv.phase = NoneStr THEN [hp |-> h2, k |-> st.k, err |-> "TypeError"]
       ELSE IF ~InPp(arrv.phase) THEN [st EXCEPT !.hp = h2]
       ELSE IF PolaritySign(pick.polarity) = 0 THEN [st EXCEPT !.hp = h2]
       ELSE [hp |-> h4, k |-> st.k + 1, err |-> ""]

RECURSIVE ArrivalLoop(_, _, _)
ArrivalLoop(st, ev, i) ==
    IF st.err # "" \/ i >= Len(ev.origin.arrivals) THEN st
    ELSE ArrivalLoop(ArrivalStep(st, ev, i), ev, i + 1)

\* the whole of input_event: [hp, err], hp as the call leaves it
input_event(h, ev) ==
    LET s0 == InputScalars(h, ev)
        s1 == ArrivalLoop(s0, ev, 0)
    IN IF s0.err # "" THEN [hp |-> s0.hp, err |-> s0.err]
       ELSE IF s1.err # "" THEN [hp |-> s1.hp, err |-> s1.err]
       ELSE [hp |-> [s1.hp EXCEPT !.npol = s1.k], err |-> ""]

(* --------------------------- output_event ----------------------------- *)
\* variant: the raw angle exported
TakeoffRaw(raw) == raw

\* lines 186 and 200
Takeoff(raw) == 180 - raw

\* variant: the index compared with the 1-based number used in the identifier
IsBestOffByOne(s, x) == s + 1 = x

\* line 241
IsBest(s, x) == s = x

\* lines 174-181: the pick of slot i (0-based); its resource id is bound to it
NewPick(h, i) ==
    [resource_id |-> rid(Local("Pick", h.arid[i], 0, ""), ""), referred |-> TRUE,
     station_code |-> h.sname[i], network_code |-> h.snet[i],
     channel_code |-> h.scomp[i], version |-> h.arid[i],
     polarity |-> IF h.p_pol[i] > 0 THEN "positive" ELSE "negative",
     onset |-> NoneStr]

\* lines 182-187: the arrival of slot i; distance and phase are not set
NewArrival(h, i) ==
    [resource_id |-> rid(Local("Arrival", h.arid[i], 0, ""), ""),
     pick_id |-> rid(Local("Pick", h.arid[i], 0, ""), ""),
     azimuth |-> Some(h.p_azi_mc[i]), distance |-> None, phase |-> NoneStr,
     takeoff_angle |-> Some(Takeoff(h.p_the_mc[i]))]

\* lines 165-191: the event built when none is supplied
NewEvent(h) ==
    [origin |-> [time |-> h.tstamp, latitude |-> h.qlat, longitude |-> h.qlon,
                 depth |-> h.qdep * 1000, version |-> h.icusp,
                 resource_id |-> rid(Local("Origin", h.icusp, 0, ""), ""),
                 origin_uncertainty |-> None, depth_errors |-> None,
                 arrivals |-> [i \in 1..h.npol |-> NewArrival(h, i - 1)]],
     magnitude |-> None,
     picks |-> [i \in 1..h.npol |-> NewPick(h, i - 1)],
     focal_mechanisms |-> <<>>,
     preferred_focal_mechanism_id |-> NoId]

\* lines 196-202: one pass of the loop of the existing-event mode,
\* st = [ev, picks, arrivals, err]; the arrival is changed in place
UpdateStep(st, h, i) ==
    LET ind == h.p_index[i + 1]
        arrs == st.ev.origin.arrivals
        a == [arrs[ind + 1] EXCEPT !.takeoff_angle = Some(Takeoff(h.p_the_mc[i]))]
        p == getReferredObject(a.pick_id, st.ev.picks)
    IN IF i >= Len(h.p_index) \/ ind >= Len(arrs)
       THEN [st EXCEPT !.err = "IndexError"]
       ELSE [ev |-> [st.ev EXCEPT !.origin.arrivals[ind + 1] = a],
             picks |-> Append(st.picks, p),
             arrivals |-> Append(st.arrivals, a),
             err |-> ""]

RECURSIVE UpdateLoop(_, _, _)
UpdateLoop(st, h, i) ==
    IF st.err # "" \/ i >= h.npol THEN st
    ELSE UpdateLoop(UpdateStep(st, h, i), h, i + 1)

\* lines 193-205
UpdateEvent(h, ev, only_fm_picks) ==
    LET s == UpdateLoop([ev |-> ev, picks |-> <<>>, arrivals |-> <<>>, err |-> ""], h, 0)
    IN IF s.err # "" THEN [ev |-> s.ev, err |-> s.err]
       ELSE IF only_fm_picks
       THEN [ev |-> [s.ev EXCEPT !.origin.arrivals = s.arrivals, !.picks = s.picks],
             err |-> ""]
       ELSE [ev |-> s.ev, err |-> ""]

\* lines 210-238: the record of candidate s (0-based); solution stands for
\* the planes, axes, misfit and ratio taken from the solver's arrays at s
FocalMech(h, s, origin) ==
    [resource_id |-> rid(Local("FocalMechanism", h.icusp, s + 1, ""), ""),
     triggering_origin_id |-> origin.resource_id,
     comments |-> << rid(Local("FocalMechanism", h.icusp, s + 1, "#hash-settings"), ""),
                     rid(Local("FocalMechanism", h.icusp, s + 1, "#hash-qual"), "") >>,
     station_polarity_count |-> h.npol,
     solution |-> s]

\* lines 207-242
AppendMechanisms(h, ev) ==
    LET marked == {s \in 0..(h.nmult - 1) : IsBest(s, h.best)}
    IN [ev EXCEPT
        !.focal_mechanisms = @ \o [s \in 1..h.nmult |-> FocalMech(h, s - 1, ev.origin)],
        !.preferred_focal_mechanism_id =
            IF marked = {} THEN @
            ELSE FocalMech(h, Last(marked), ev.origin).resource_id]

\* the whole of output_event: [ev, err]; supplied is FALSE when event is None
output_event(h, ev, supplied, only_fm_picks) ==
    IF ~supplied
    THEN [ev |-> AppendMechanisms(h, NewEvent(h)), err |-> ""]
    ELSE LET u == UpdateEvent(h, ev, only_fm_picks)
         IN IF u.err # "" THEN u
            ELSE [ev |-> AppendMechanisms(h, u.ev), err |-> ""]

(* ------------------------------ inputs -------------------------------- *)
\* identifiers of the objects of an event read from a catalog
ExtId(kind, n) == [prefix |-> "smi:catalog", local |-> Local(kind, n, 0, "")]

\* An arrival and its pick.  ref: "direct", the arrival's pick_id is bound to
\* the pick; "fallback", it is not, and the pick is found by its place in the
\* list of pick identifiers; "none", the arrival names a pick the event lacks.
ArrivalKinds ==
    { [ref |-> "direct", sta |-> "AAA", ver |-> 7, az |-> 90, distance |-> 1,
       phase |-> "P", polarity |-> "positive", onset |-> "impulsive"],
      [ref |-> "direct", sta |-> "BBB", ver |-> 8, az |-> -90, distance |-> 1,
       phase |-> "p", polarity |-> "negative", onset |-> "questionable"],
      [ref |-> "fallback", sta |-> "CCC", ver |-> 7, az |-> -400, distance |-> 1,
       phase |-> "P", polarity |-> "negative", onset |-> "emergent"],
      [ref |-> "none", sta |-> "DDD", ver |-> 9, az |-> 10, distance |-> 1,
       phase |-> "P", polarity |-> "positive", onset |-> "impulsive"],
      [ref |-> "direct", sta |-> "EEE", ver |-> 9, az |-> 200, distance |-> 2,
       phase |-> "P", polarity |-> "positive", onset |-> "emergent"],
      [ref |-> "direct", sta |-> "FFF", ver |-> 8, az |-> 360, distance |-> 1,
       phase |-> "", polarity |-> "positive", onset |-> NoneStr],
      [ref |-> "direct", sta |-> "GGG", ver |-> 9, az |-> 45, distance |-> 1,
       phase |-> "S", polarity |-> "negative", onset |-> "impulsive"],
      [ref |-> "direct", sta |-> "HHH", ver |-> 8, az |-> 300, distance |-> 1,
       phase |-> "P", polarity |-> "undecidable", onset |-> "emergent"] }

ArrivalLists == UNION {[1..n -> ArrivalKinds] : n \in 0..MaxArr}

Ellipsoid(sma) == Some([semi_major_axis_length |-> sma])

\* time, place, version, location errors and magnitude of a preferred origin
OriginKinds ==
    { [h |-> 1, magnitude |-> Some(3), depth_errors |-> Some(4000),
       origin_uncertainty |-> Some([horizontal_uncertainty |-> Some(2000),
                                    confidence_ellipsoid |-> Ellipsoid(Some(3000))])],
      [h |-> 2, magnitude |-> None, depth_errors |-> None,
       origin_uncertainty |-> Some([horizontal_uncertainty |-> None,
                                    confidence_ellipsoid |-> Ellipsoid(Some(3000))])],
      [h |-> 1, magnitude |-> Some(3), depth_errors |-> Some(4000),
       origin_uncertainty |-> Some([horizontal_uncertainty |-> None,
                                    confidence_ellipsoid |-> None])],
      [h |-> 2, magnitude |-> None, depth_errors |-> Some(4000),
       origin_uncertainty |-> None],
      [h |-> 2, magnitude |-> Some(5), depth_errors |-> None,
       origin_uncertainty |-> Some([horizontal_uncertainty |-> Some(0),
                                    confidence_ellipsoid |-> Ellipsoid(None)])] }

MkEvent(o, tl) ==
    [origin |-> [time |-> 1000 * o.h, latitude |-> 30 + o.h, longitude |-> -120 - o.h,
                 depth |-> 5000 * o.h, version |-> 40 + o.h,
                 resource_id |-> ExtId("origin", o.h),
                 origin_uncertainty |-> o.origin_uncertainty,
                 depth_errors |-> o.depth_errors,
                 arrivals |-> [j \in 1..Len(tl) |->
                     [resource_id |-> ExtId("arrival", j),
                      pick_id |-> IF tl[j].ref = "none" THEN ExtId("lost", j)
                                  ELSE ExtId("pick", j),
                      azimuth |-> Some(tl[j].az), distance |-> Some(tl[j].distance),
                      phase |-> tl[j].phase, takeoff_angle |-> Some(45)]]],
     magnitude |-> o.magnitude,
     picks |-> [j \in 1..Len(tl) |->
                 [resource_id |-> ExtId("pick", j), referred |-> tl[j].ref = "direct",
                  station_code |-> tl[j].sta, network_code |-> "NN",
                  channel_code |-> "HHZ", version |-> tl[j].ver,
                  polarity |-> tl[j].polarity, onset |-> tl[j].onset]],
     focal_mechanisms |-> <<>>,
     preferred_focal_mechanism_id |-> NoId]

FirstOrigin == CHOOSE o \in OriginKinds : o.h = 1 /\ Truthy(o.origin_uncertainty[1].horizontal_uncertainty)

\* every list of arrivals on one origin, and every origin with every list of
\* at most one arrival
Events ==
    {MkEvent(FirstOrigin, tl) : tl \in ArrivalLists}
    \cup {MkEvent(o, tl) : o \in OriginKinds,
                           tl \in {l \in ArrivalLists : Len(l) <= 1}}

\* the caller holds no event yet
NoEvent == MkEvent([h |-> 0, magnitude |-> None, depth_errors |-> None,
                    origin_uncertainty |-> None], <<>>)

\* raw takeoff angles the solver may report for the slots
TakeoffArrays == { [k \in Slots |-> 30 + 20 * k], [k \in Slots |-> 120 - 10 * k] }

(* ------------------------------ actions ------------------------------- *)
Init ==
    /\ hp = FreshHp
    /\ hp2 = FreshHp
    /\ event = NoEvent
    /\ result = NoEvent
    /\ pre = NoEvent
    /\ err = ""
    /\ stage = "fresh"
    /\ mode = "none"
    /\ nexports = 0

\* the caller loads an event into the holder: a first event into a fresh
\* holder, or a second one into the holder the first was loaded into
InputEvent ==
    /\ stage \in {"fresh", "imported"}
    /\ \E e \in Events :
          LET r == input_event(hp, e)
          IN /\ hp' = r.hp
             /\ err' = r.err
             /\ event' = e
    /\ stage' = IF stage = "fresh" THEN "imported" ELSE "reloaded"
    /\ mode' = "input"
    /\ UNCHANGED <<result, hp2, nexports, pre>>

FirstImport ==
    /\ stage = "fresh"
    /\ InputEvent

\* the solver runs on the loaded holder and leaves its candidates, the index
\* of the best one and the takeoff angles and azimuths of the slots
Solve ==
    /\ stage = "imported"
    /\ err = ""
    /\ \E nm \in 0..MaxMult, b \in 0..MaxMult, the \in TakeoffArrays :
          hp' = [hp EXCEPT !.nmult = nm, !.best = b, !.p_the_mc = the,
                           !.p_azi_mc = hp.qazi]
    /\ stage' = "solved"
    /\ mode' = "solve"
    /\ UNCHANGED <<event, result, hp2, err, nexports, pre>>

\* output_event(hp)
OutputNew ==
    /\ stage \in {"solved", "exported"}
    /\ err = ""
    /\ nexports < MaxExports
    /\ LET r == output_event(hp, NoEvent, FALSE, FALSE)
       IN /\ result' = r.ev
          /\ err' = r.err
    /\ pre' = NoEvent
    /\ stage' = "exported"
    /\ mode' = "new"
    /\ nexports' = nexports + 1
    /\ UNCHANGED <<hp, hp2, event>>

\* output_event(hp, event, only_fm_picks) on the event the caller holds
OutputExisting ==
    /\ stage \in {"solved", "exported"}
    /\ err = ""
    /\ nexports < MaxExports
    /\ \E only_fm_picks \in BOOLEAN :
          LET r == output_event(hp, event, TRUE, only_fm_picks)
          IN /\ event' = r.ev
             /\ err' = r.err
             /\ mode' = IF only_fm_picks THEN "only_fm" ELSE "existing"
    /\ pre' = event
    /\ stage' = "exported"
    /\ nexports' = nexports + 1
    /\ UNCHANGED <<hp, hp2, result>>

\* the event output_event built is loaded into a second holder
ReImport ==
    /\ stage = "exported"
    /\ mode = "new"
    /\ LET r == input_event(FreshHp, result)
       IN /\ hp2' = r.hp
          /\ err' = r.err
    /\ stage' = "reimported"
    /\ mode' = "reinput"
    /\ UNCHANGED <<hp, event, result, nexports, pre>>

\* the pipeline: one import, the solver, exports, the round trip
Next == FirstImport \/ Solve \/ OutputNew \/ OutputExisting \/ ReImport

Spec == Init /\ [][Next]_vars

\* imports only, one after the other on the same holder
NextImport == InputEvent

SpecImport == Init /\ [][NextImport]_vars

(* ------------------------- reading the state -------------------------- *)
Positions(ev) == 0..(Len(ev.origin.arrivals) - 1)
ArrivalAt(ev, i) == ev.origin.arrivals[i + 1]

\* the pick of the event that carries the identifier the arrival names
HasPick(ev, i) == \E n \in 1..Len(ev.picks) : ev.picks[n].resource_id = ArrivalAt(ev, i).pick_id
PickOf(ev, i) ==
    ev.picks[CHOOSE n \in 1..Len(ev.picks) : ev.picks[n].resource_id = ArrivalAt(ev, i).pick_id]

WithinDelmax(ev, i, delmax) == 1112 * Val(ArrivalAt(ev, i).distance) <= delmax
Determinate(ev, i) == PickOf(ev, i).polarity \in {"positive", "negative"}

\* the four conditions, the phase being P or p
Usable(ev, i, delmax) ==
    /\ HasPick(ev, i)
    /\ WithinDelmax(ev, i, delmax)
    /\ ArrivalAt(ev, i).phase \in {"P", "p"}
    /\ Determinate(ev, i)

\* the four conditions, the phase being any string contained in "Pp"
Kept(ev, i, delmax) ==
    /\ HasPick(ev, i)
    /\ WithinDelmax(ev, i, delmax)
    /\ ArrivalAt(ev, i).phase \in {"", "P", "p", "Pp"}
    /\ Determinate(ev, i)

Ascending(S) ==
    CHOOSE q \in [1..Cardinality(S) -> S] : \A a, b \in 1..Cardinality(S) : a < b => q[a] < q[b]

SlotOf(h, k) ==
    [sname |-> h.sname[k], snet |-> h.snet[k], scomp |-> h.scomp[k],
     arid |-> h.arid[k], qazi |-> h.qazi[k], dist |-> h.dist[k],
     p_pol |-> h.p_pol[k], p_qual |-> h.p_qual[k]]

\* what the slot of the arrival at position i is to hold
ExpectedSlot(ev, i) ==
    LET a == ArrivalAt(ev, i)
        p == PickOf(ev, i)
        az == Val(a.azimuth)
    IN [sname |-> p.station_code, snet |-> p.network_code, scomp |-> p.channel_code,
        arid |-> p.version,
        qazi |-> IF az < 0 THEN az + 360 ELSE az,
        dist |-> 1112 * Val(a.distance),
        p_pol |-> IF p.polarity = "positive" THEN 1 ELSE -1,
        p_qual |-> IF p.onset \in {"emergent", "questionable"} THEN 1 ELSE 0]

Imported == mode = "input" /\ err = ""
Exported == mode \in {"new", "existing", "only_fm"} /\ err = ""
Returned == IF mode = "new" THEN result ELSE event

NoDuplicates(q) == \A a, b \in 1..Len(q) : a # b => q[a] # q[b]

(* ------------------------------- claims ------------------------------- *)
\* C1: after input_event, hp.npol is the number of arrivals of the preferred
\* origin whose pick is resolved, whose distance * 111.2 is at most hp.delmax,
\* whose phase is a P phase and whose polarity is positive or negative, and
\* hp.p_index lists the positions of those arrivals in ascending order.
C1_SlotCount ==
    Imported =>
        LET Q == {i \in Positions(event) : Usable(event, i, hp.delmax)}
        IN /\ hp.npol = Cardinality(Q)
           /\ Len(hp.p_index) = hp.npol
           /\ hp.p_index = Ascending(Q)

\* C2 as stated: after input_event calls on one holder, every slot that has
\* been written holds the data of an arrival of the last event that passed
\* all filters, and no slot at or above hp.npol has been written.
C2_EverySlot ==
    Imported =>
        \A k \in Slots :
            SlotOf(hp, k) # SlotOf(FreshHp, k) =>
                /\ k < hp.npol
                /\ \E i \in Positions(event) :
                      /\ Usable(event, i, hp.delmax)
                      /\ SlotOf(hp, k) = ExpectedSlot(event, i)

\* C2 as amended: after input_event calls on one holder, the last of which
\* returned, every slot below hp.npol holds the data of the arrival at
\* position hp.p_index[k] of the last event, an arrival the import kept.
C2_SlotsBelowNpol ==
    Imported =>
        /\ Len(hp.p_index) = hp.npol
        /\ \A k \in 0..(hp.npol - 1) :
              /\ hp.p_index[k + 1] \in Positions(event)
              /\ Kept(event, hp.p_index[k + 1], hp.delmax)
              /\ SlotOf(hp, k) = ExpectedSlot(event, hp.p_index[k + 1])

\* a second import that kept an arrival and left a slot at or above hp.npol
\* holding data of a skipped arrival or of the first import
C2_Witness ==
    /\ Imported
    /\ stage = "reloaded"
    /\ hp.npol >= 1
    /\ \E k \in Slots : k >= hp.npol /\ SlotOf(hp, k) # SlotOf(FreshHp, k)

\* C3 as stated: for every retained arrival the stored azimuth lies in
\* [0, 360), and is the input + 360 for a negative input and the input
\* otherwise, whatever the input azimuth.
C3_AzimuthInRange ==
    Imported =>
        \A k \in 0..(hp.npol - 1) :
            LET az == Val(ArrivalAt(event, hp.p_index[k + 1]).azimuth)
            IN /\ hp.qazi[k] >= 0 /\ hp.qazi[k] < 360
               /\ hp.qazi[k] = IF az < 0 THEN az + 360 ELSE az

\* C3 as amended: for every retained arrival the stored azimuth is the
\* input + 360 for a negative input and the input otherwise; it lies in
\* [0, 360) when the input lies in [-360, 360).
C3_AzimuthShift ==
    Imported =>
        \A k \in 0..(hp.npol - 1) :
            LET az == Val(ArrivalAt(event, hp.p_index[k + 1]).azimuth)
            IN /\ hp.qazi[k] = IF az < 0 THEN az + 360 ELSE az
               /\ (az >= -360 /\ az < 360) => (hp.qazi[k] >= 0 /\ hp.qazi[k] < 360)

\* a retained arrival with a negative azimuth of at least -360
C3_Witness ==
    /\ Imported
    /\ \E k \in 0..(hp.npol - 1) :
          LET az == Val(ArrivalAt(event, hp.p_index[k + 1]).azimuth)
          IN az < 0 /\ az >= -360 /\ hp.qazi[k] = az + 360

\* C8: hp.seh is the explicit horizontal uncertainty / 1000 when the origin
\* has one, else the semi-major axis of the confidence ellipsoid / 1000 when
\* it has an ellipsoid, else 1000 / 1000 with no error raised, also for an
\* origin without an origin-uncertainty structure.
C8_HorizontalError ==
    mode = "input" =>
        LET u == event.origin.origin_uncertainty
        IN IF u # None /\ Val(u).horizontal_uncertainty # None
           THEN err = "" /\ 1000 * hp.seh = Val(Val(u).horizontal_uncertainty)
           ELSE IF u # None /\ Val(u).confidence_ellipsoid # None
           THEN err = ""
                /\ 1000 * hp.seh = Val(Val(Val(u).confidence_ellipsoid).semi_major_axis_length)
           ELSE err = "" /\ hp.seh = 1

\* C10: after a second import on the same holder the scalar fields, hp.npol,
\* hp.p_index and the slots below hp.npol are those a fresh holder has after
\* importing the second event alone; hp.qmag does not keep the first event's
\* magnitude.
C10_NoCarryOver ==
    (Imported /\ stage = "reloaded") =>
        LET f == input_event(FreshHp, event).hp
        IN /\ hp.tstamp = f.tstamp /\ hp.qlat = f.qlat /\ hp.qlon = f.qlon
           /\ hp.qdep = f.qdep /\ hp.icusp = f.icusp
           /\ hp.seh = f.seh /\ hp.sez = f.sez
           /\ hp.qmag = f.qmag
           /\ hp.npol = f.npol /\ hp.p_index = f.p_index
           /\ \A k \in 0..(hp.npol - 1) : SlotOf(hp, k) = SlotOf(f, k)

\* C4: importing the event that output_event built from the holder returns
\* without error and gives the second holder the first one's tstamp, qlat,
\* qlon, qdep and npol.
C4_RoundTrip ==
    mode = "reinput" =>
        /\ err = ""
        /\ hp2.tstamp = hp.tstamp /\ hp2.qlat = hp.qlat /\ hp2.qlon = hp.qlon
        /\ hp2.qdep = hp.qdep
        /\ hp2.npol = hp.npol

\* the focal mechanisms the last output_event appended, by place in the list
Appended == (Len(pre.focal_mechanisms) + 1)..Len(Returned.focal_mechanisms)
Preferred ==
    {n \in Appended : Returned.focal_mechanisms[n].resource_id
                        = Returned.preferred_focal_mechanism_id}

\* C5 as stated: whatever hp.nmult and hp._best_quality_index are, exactly
\* one of the hp.nmult records output_event appended is the preferred focal
\* mechanism, the one built from candidate hp._best_quality_index.
C5_OnePreferred ==
    Exported =>
        /\ Cardinality(Appended) = hp.nmult
        /\ Cardinality(Preferred) = 1
        /\ \A n \in Preferred : Returned.focal_mechanisms[n].solution = hp.best

\* C5 as amended: when 0 <= hp._best_quality_index < hp.nmult, exactly one of
\* the hp.nmult records output_event appended is the preferred focal
\* mechanism, the one built from that candidate; otherwise output_event
\* leaves the preferred focal mechanism as it was.
C5_OnePreferredInRange ==
    Exported =>
        /\ Cardinality(Appended) = hp.nmult
        /\ IF hp.best >= 0 /\ hp.best < hp.nmult
           THEN /\ Cardinality(Preferred) = 1
                /\ \A n \in Preferred : Returned.focal_mechanisms[n].solution = hp.best
           ELSE Returned.preferred_focal_mechanism_id = pre.preferred_focal_mechanism_id

\* a second output_event on an event that holds focal mechanisms already,
\* with several candidates and the best one not the first
C5_Witness ==
    /\ Exported
    /\ mode # "new"
    /\ Len(pre.focal_mechanisms) > 0
    /\ hp.nmult >= 2
    /\ hp.best = 1
    /\ Cardinality(Preferred) = 1

\* C6: in the event output_event returns no two picks, no two arrivals, no
\* two focal mechanisms and no two comments share a resource id.
C6_UniqueIds ==
    Exported =>
        LET ev == Returned
            fm == ev.focal_mechanisms
        IN /\ \A a, b \in 1..Len(ev.picks) :
                (a # b /\ ev.picks[a] # NonePick /\ ev.picks[b] # NonePick)
                    => ev.picks[a].resource_id # ev.picks[b].resource_id
           /\ NoDuplicates([n \in 1..Len(ev.origin.arrivals) |-> ev.origin.arrivals[n].resource_id])
           /\ NoDuplicates([n \in 1..Len(fm) |-> fm[n].resource_id])
           /\ \A a, b \in 1..Len(fm) : \A c, d \in 1..2 :
                (a # b \/ c # d) => fm[a].comments[c] # fm[b].comments[d]

\* C7: with an event supplied and only_fm_picks set, output_event leaves in
\* origin.arrivals exactly the arrivals at hp.p_index[0..npol-1], in order,
\* and in event.picks exactly the picks input_event resolved for them, none
\* of them None.
C7_OnlyFmPicks ==
    (mode = "only_fm" /\ err = "") =>
        /\ Len(event.origin.arrivals) = hp.npol
        /\ Len(event.picks) = hp.npol
        /\ \A k \in 1..hp.npol :
              /\ event.origin.arrivals[k].resource_id
                    = ArrivalAt(pre, hp.p_index[k]).resource_id
              /\ event.picks[k] # NonePick
              /\ event.picks[k] = PickOf(pre, hp.p_index[k])

\* C9: after output_event, for every filled slot i the arrival of slot i
\* (the i-th arrival created, or the arrival that stood at
\* origin.arrivals[hp.p_index[i]] when output_event was called) has the
\* takeoff angle 180 - hp.p_the_mc[i], and with an event supplied no other
\* arrival is changed.
C9_TakeoffAngle ==
    Exported =>
        IF mode = "new"
        THEN /\ Len(result.origin.arrivals) = hp.npol
             /\ \A i \in 0..(hp.npol - 1) :
                   ArrivalAt(result, i).takeoff_angle = Some(180 - hp.p_the_mc[i])
        ELSE /\ \A i \in 0..(hp.npol - 1) :
                   LET a0 == ArrivalAt(pre, hp.p_index[i + 1])
                       S == {n \in 1..Len(event.origin.arrivals) :
                               event.origin.arrivals[n].resource_id = a0.resource_id}
                   IN /\ S # {}
                      /\ \A n \in S : event.origin.arrivals[n].takeoff_angle
                                         = Some(180 - hp.p_the_mc[i])
             /\ \A n \in 1..Len(event.origin.arrivals) :
                   LET a == event.origin.arrivals[n]
                   IN \/ \E i \in 1..hp.npol :
                           ArrivalAt(pre, hp.p_index[i]).resource_id = a.resource_id
                      \/ \E m \in 1..Len(pre.origin.arrivals) : pre.origin.arrivals[m] = a
             /\ mode = "existing" =>
                   /\ Len(event.origin.arrivals) = Len(pre.origin.arrivals)
                   /\ \A j \in Positions(pre) :
                         (\A i \in 1..hp.npol : hp.p_index[i] # j)
                             => ArrivalAt(event, j) = ArrivalAt(pre, j)

\* an event supplied, a filled slot, and an arrival that is not of any slot
C9_Witness ==
    /\ Exported
    /\ mode = "existing"
    /\ hp.npol >= 1
    /\ \E j \in Positions(pre) :
          /\ \A i \in 1..hp.npol : hp.p_index[i] # j
          /\ ArrivalAt(event, j).takeoff_angle = Some(45)
    /\ \E i \in 0..(hp.npol - 1) :
          ArrivalAt(event, hp.p_index[i + 1]).takeoff_angle = Some(180 - hp.p_the_mc[i])

====
